---- MODULE Spec2Model ----
(***************************************************************************)
(* Model of the two notebooks of paper/: the NetCDF dtype-downcast cell    *)
(* (compress) and the sympy derivations of the relative-dispersion PDFs'   *)
(* moments (cells 2.1 .. 2.10).                                            *)
(*                                                                         *)
(* Symbolic expressions are kept in an exact normal form: a sum of terms   *)
(*     q * prod_s s^e[s] * exp(x)                                          *)
(* with q a reduced rational, e a rational exponent for every symbol and x *)
(* a polynomial (the argument of exp).  Python floats are read as the      *)
(* rationals they are written as (1.5 = 3/2, 2.0/3.0 = 2/3).               *)
(***************************************************************************)
EXTENDS Integers, Sequences, FiniteSets, TLC

(***************************************************************************)
(* Exact rationals <<n, d>>, d > 0, gcd(n, d) = 1.                         *)
(***************************************************************************)
Abs(i) == IF i < 0 THEN -i ELSE i

RECURSIVE GCD(_, _)
GCD(i, j) == IF j = 0 THEN i ELSE GCD(j, i % j)

RNorm(i, j) ==
    LET g == GCD(Abs(i), Abs(j))
        s == IF j < 0 THEN -1 ELSE 1
    IN  <<(s * i) \div g, (s * j) \div g>>

Q(i, j) == RNorm(i, j)
RZero == <<0, 1>>
ROne == <<1, 1>>

RMul(u, v) ==
    LET g1 == GCD(Abs(u[1]), v[2])
        g2 == GCD(Abs(v[1]), u[2])
    IN  <<(u[1] \div g1) * (v[1] \div g2), (u[2] \div g2) * (v[2] \div g1)>>

RInv(u) == IF u[1] > 0 THEN <<u[2], u[1]>> ELSE <<-u[2], -u[1]>>
RDiv(u, v) == RMul(u, RInv(v))
RNeg(u) == <<-u[1], u[2]>>

RAdd(u, v) ==
    LET g == GCD(u[2], v[2])
    IN  RNorm(u[1] * (v[2] \div g) + v[1] * (u[2] \div g), (u[2] \div g) * v[2])

RSub(u, v) == RAdd(u, RNeg(v))
RIsInt(u) == u[2] = 1

RECURSIVE RPowNat(_, _)
RPowNat(u, k) == IF k = 0 THEN ROne ELSE RMul(u, RPowNat(u, k - 1))

\* u ** k for an integer k
RPow(u, k) == IF k >= 0 THEN RPowNat(u, k) ELSE RPowNat(RInv(u), -k)

RECURSIVE Fact(_)
Fact(k) == IF k <= 0 THEN 1 ELSE k * Fact(k - 1)

\* the exact k-th root of a rational that is a perfect k-th power
IRoot(i, k) == CHOOSE y \in 0..i : RPowNat(<<y, 1>>, k) = <<i, 1>>
RRoot(u, k) == <<IRoot(u[1], k), IRoot(u[2], k)>>

\* u ** w for a rational w = n/d, u a perfect d-th power when d > 1
RPowR(u, w) == IF w[2] = 1 THEN RPow(u, w[1]) ELSE RPow(RRoot(u, w[2]), w[1])

\* sympy gamma at a positive integer argument
GammaR(u) == <<Fact(u[1] - 1), 1>>

\* binomial coefficient C(i, j)
Binom(i, j) == IF j < 0 \/ j > i THEN RZero ELSE Q(Fact(i), Fact(j) * Fact(i - j))

(***************************************************************************)
(* Symbols (cell 2.1) and monomials.                                       *)
(***************************************************************************)
Syms == {"k2", "t", "r0", "lambda", "beta", "kappa", "T", "pi"}

EZero == [s \in Syms |-> RZero]
EAddV(e1, e2) == [s \in Syms |-> RAdd(e1[s], e2[s])]
EScaleV(e1, w) == [s \in Syms |-> RMul(e1[s], w)]

\* a monomial q * prod s^e[s]
Num(i, j) == [q |-> Q(i, j), e |-> EZero]
Sy(s) == [q |-> ROne, e |-> [EZero EXCEPT ![s] = ROne]]
MMul(m1, m2) == [q |-> RMul(m1.q, m2.q), e |-> EAddV(m1.e, m2.e)]
MPow(m1, w) == [q |-> RPowR(m1.q, w), e |-> EScaleV(m1.e, w)]
MInv(m1) == MPow(m1, <<-1, 1>>)
MDiv(m1, m2) == MMul(m1, MInv(m2))
MNeg(m1) == [m1 EXCEPT !.q = RNeg(m1.q)]

(***************************************************************************)
(* Polynomials: sets of monomials with pairwise different exponents and    *)
(* non-zero coefficients.  They are the arguments of exp.                  *)
(***************************************************************************)
PCoef(P, k) == IF \E m \in P : m.e = k THEN (CHOOSE m \in P : m.e = k).q ELSE RZero

PAdd(P1, P2) ==
    LET keys == {m.e : m \in P1 \cup P2}
        all == {[q |-> RAdd(PCoef(P1, k), PCoef(P2, k)), e |-> k] : k \in keys}
    IN  {m \in all : m.q[1] # 0}

PMono(m1) == IF m1.q[1] = 0 THEN {} ELSE {m1}
PScale(P, m1) == {MMul(m, m1) : m \in P}

\* d/dt of a polynomial
PDiffT(P) ==
    {m \in {[q |-> RMul(m0.q, m0.e["t"]),
             e |-> [m0.e EXCEPT !["t"] = RSub(@, ROne)]] : m0 \in P} : m.q[1] # 0}

(***************************************************************************)
(* Expressions: sets of terms q * prod s^e[s] * exp(x), pairwise different *)
(* in (e, x), with non-zero coefficients.                                  *)
(***************************************************************************)
Tm(m1, P) == [q |-> m1.q, e |-> m1.e, x |-> P]
TMul(t1, t2) == [q |-> RMul(t1.q, t2.q), e |-> EAddV(t1.e, t2.e), x |-> PAdd(t1.x, t2.x)]
TInv(t1) == [q |-> RInv(t1.q), e |-> EScaleV(t1.e, <<-1, 1>>), x |-> PScale(t1.x, Num(-1, 1))]

ECoef(E, k) ==
    IF \E m \in E : m.e = k.e /\ m.x = k.x
    THEN (CHOOSE m \in E : m.e = k.e /\ m.x = k.x).q
    ELSE RZero

EAdd(E1, E2) ==
    LET keys == {[e |-> m.e, x |-> m.x] : m \in E1 \cup E2}
        all == {[q |-> RAdd(ECoef(E1, k), ECoef(E2, k)), e |-> k.e, x |-> k.x] : k \in keys}
    IN  {m \in all : m.q[1] # 0}

EScale(E, t1) == {TMul(m, t1) : m \in E}
EOne == {Tm(Num(1, 1), {})}
EMono(m1) == IF m1.q[1] = 0 THEN {} ELSE {Tm(m1, {})}

RECURSIVE EMul(_, _)
EMul(E1, E2) ==
    IF E1 = {} THEN {}
    ELSE LET t1 == CHOOSE m \in E1 : TRUE
         IN  EAdd(EScale(E2, t1), EMul(E1 \ {t1}, E2))

RECURSIVE EPowNat(_, _)
EPowNat(E, k) == IF k = 0 THEN EOne ELSE EMul(E, EPowNat(E, k - 1))

\* d/dt of one term (product rule on t^e * exp(x)), and of an expression
TDiffT(t1) ==
    LET power == {m \in {[q |-> RMul(t1.q, t1.e["t"]),
                          e |-> [t1.e EXCEPT !["t"] = RSub(@, ROne)],
                          x |-> t1.x]} : m.q[1] # 0}
        chain == {[q |-> RMul(t1.q, d.q), e |-> EAddV(t1.e, d.e), x |-> t1.x] :
                     d \in PDiffT(t1.x)}
    IN  EAdd(power, chain)

RECURSIVE EDiffT(_)
EDiffT(E) ==
    IF E = {} THEN {}
    ELSE LET t1 == CHOOSE m \in E : TRUE
         IN  EAdd(TDiffT(t1), EDiffT(E \ {t1}))

(***************************************************************************)
(* Values bound to ra, r2, r4, Ku, K2: a quotient num/den of expressions   *)
(* (den is EOne whenever the denominator is a single term), and the form   *)
(* sympy returned: "closed", or "integral" when an unevaluated Integral    *)
(* object is part of it.  num/den is what the expression denotes.          *)
(***************************************************************************)
Forms == {"closed", "integral"}
JoinForm(f1, f2) == IF f1 = "closed" /\ f2 = "closed" THEN "closed" ELSE "integral"

Val(E, f) == [num |-> E, den |-> EOne, form |-> f]
NoVal == [num |-> {}, den |-> {}, form |-> "undefined"]

VNorm(n1, d1, f) ==
    IF Cardinality(d1) = 1
    THEN [num |-> EScale(n1, TInv(CHOOSE m \in d1 : TRUE)), den |-> EOne, form |-> f]
    ELSE [num |-> n1, den |-> d1, form |-> f]

VDiv(v1, v2) == VNorm(EMul(v1.num, v2.den), EMul(v1.den, v2.num), JoinForm(v1.form, v2.form))
VPowNat(v1, k) == VNorm(EPowNat(v1.num, k), EPowNat(v1.den, k), v1.form)
VScale(v1, m1) == [v1 EXCEPT !.num = EScale(@, Tm(m1, {}))]

\* diff(v, t): the quotient rule, (n' d - n d') / d^2
VDiffT(v1) ==
    VNorm(EAdd(EMul(EDiffT(v1.num), v1.den),
               EScale(EMul(v1.num, EDiffT(v1.den)), Tm(Num(-1, 1), {}))),
          EMul(v1.den, v1.den), v1.form)

(***************************************************************************)
(* Densities.  fam says which shape the expression bound to p has:         *)
(*   "stretched"  A * exp(-c * r^s)                                        *)
(*   "bessel"     A * r^(-w) * exp(-c * r^s) * besseli(nu, bb * r^sigma)   *)
(*   "lognormal"  A * exp(-(log(r) + 2 tau)^2 / (4 tau))                   *)
(*   "lognormalx" A * exp(-(x + 2 tau)^2 / (4 tau))                        *)
(* A is a term (it carries the factor exp(-c * r0^s) of the full PDFs).    *)
(***************************************************************************)
Density(f, A1, w1, c1, s1, nu1, bb1, sg1, tau1) ==
    [fam |-> f, A |-> A1, w |-> w1, c |-> c1, s |-> s1, nu |-> nu1, bb |-> bb1,
     sigma |-> sg1, tau |-> tau1]

NoDensity ==
    Density("undefined", Tm(Num(0, 1), {}), RZero, Num(0, 1), RZero, 0, Num(0, 1), RZero,
            Num(0, 1))

Stretched(A1, c1, s1) ==
    Density("stretched", Tm(A1, {}), RZero, c1, s1, 0, Num(0, 1), RZero, Num(0, 1))

\* fst * scd * trd of the full PDFs: fst = A1 * r^(-w1),
\* scd = exp(-c1 * (r0^s1 + r^s1)), trd = besseli(nu1, bb1 * r^sg1)
Bessel(A1, w1, c1, s1, nu1, bb1, sg1) ==
    Density("bessel", Tm(A1, PMono(MNeg(MMul(c1, MPow(Sy("r0"), s1))))), w1, c1, s1, nu1,
            bb1, sg1, Num(0, 1))

LogNormal(f, A1, tau1) ==
    Density(f, Tm(A1, {}), RZero, Num(0, 1), RZero, 0, Num(0, 1), RZero, tau1)

(***************************************************************************)
(* sympy.integrate on these shapes: the definite integrals, exactly.       *)
(***************************************************************************)
\* integral over (0, oo) of r^m * exp(-c r^s), with g = (m + 1 - w) / s:
\*     gamma(g) / (s * c^g)
IntStretched(d, m) ==
    LET g == RDiv(RSub(Q(m + 1, 1), d.w), d.s)
    IN  {TMul(d.A, Tm(MDiv([q |-> GammaR(g), e |-> EZero],
                           MMul([q |-> d.s, e |-> EZero], MPow(d.c, g))), {}))}

\* the Laguerre polynomial L_j^(nu)(-z) = sum_i C(j + nu, j - i) z^i / i!
LaguerreNeg(j, nu1, z) ==
    {Tm(MMul([q |-> RDiv(Binom(j + nu1, j - i), Q(Fact(i), 1)), e |-> EZero],
             MPow(z, Q(i, 1))), {}) : i \in 0..j}

\* integral over (0, oo) of r^(m - w) * exp(-c r^s) * besseli(nu, bb r^sigma),
\* sigma = s/2.  With u = r^sigma it is Weber's integral
\*   (1/sigma) * int u^(nu + 1 + 2j) exp(-c u^2) I_nu(bb u) du
\*     = (1/sigma) * j! * bb^nu / (2^(nu+1) c^(nu+1+j)) * L_j^(nu)(-z) * exp(z),
\* z = bb^2 / (4 c), j = (((m - w + 1) / sigma - 1) - nu - 1) / 2.
IntWeber(d, m) ==
    LET pw == RSub(RDiv(RSub(Q(m + 1, 1), d.w), d.sigma), ROne)
        jr == RDiv(RSub(pw, Q(d.nu + 1, 1)), Q(2, 1))
        j  == jr[1]
        z  == MDiv(MPow(d.bb, Q(2, 1)), MMul(Num(4, 1), d.c))
        pre == MDiv(MMul([q |-> RDiv(Q(Fact(j), 1), d.sigma), e |-> EZero],
                         MPow(d.bb, Q(d.nu, 1))),
                    MMul(Num(2, 1), MMul(MPow(Num(2, 1), Q(d.nu, 1)),
                                         MPow(d.c, Q(d.nu + 1 + j, 1)))))
    IN  EScale(LaguerreNeg(j, d.nu, z), TMul(d.A, Tm(pre, PMono(z))))

\* integral over (0, oo) of r^m * exp(-(log(r) + 2 tau)^2 / (4 tau)), and
\* over (-oo, oo) of exp(k x) * exp(-(x + 2 tau)^2 / (4 tau)) (k = m + 1):
\*     2 * sqrt(pi * tau) * exp((k^2 - 2k) * tau)
IntLogNormal(d, k) ==
    {TMul(d.A, Tm(MMul(Num(2, 1), MPow(MMul(Sy("pi"), d.tau), Q(1, 2))),
                  PMono(MMul(Num(k * k - 2 * k, 1), d.tau))))}

\* integrate(p * r**m, (r, 0, oo))
IntegrateR(d, m) ==
    CASE d.fam = "stretched" -> IntStretched(d, m)
      [] d.fam = "bessel"    -> IntWeber(d, m)
      [] d.fam = "lognormal" -> IntLogNormal(d, m + 1)

\* integrate(p * (r0*exp(x))**k, (x, -oo, oo))
IntegrateX(d, k) == EScale(IntLogNormal(d, k), Tm(MPow(Sy("r0"), Q(k, 1)), {}))

TwoPi == MMul(Num(2, 1), Sy("pi"))

RECURSIVE Prod(_)
Prod(ms) == IF ms = <<>> THEN Num(1, 1) ELSE MMul(Head(ms), Prod(Tail(ms)))

(***************************************************************************)
(* The densities the regime cells bind to p.                               *)
(***************************************************************************)
\* the asymptotic diffusive density with exp(-(r**2)/(k2*t)) for its exponential
p_2_2_rate ==
    Stretched(MDiv(Num(1, 1), Prod(<<Num(4, 1), Sy("pi"), Sy("k2"), Sy("t")>>)),
              MDiv(Num(1, 1), Prod(<<Num(1, 1), Sy("k2"), Sy("t")>>)),
              Q(2, 1))

\* 2.2  p = 1.0 / (4*pi*k2*t) * exp(- (r**2)/(4*k2*t))
p_2_2 ==
    Stretched(MDiv(Num(1, 1), Prod(<<Num(4, 1), Sy("pi"), Sy("k2"), Sy("t")>>)),
              MDiv(Num(1, 1), Prod(<<Num(4, 1), Sy("k2"), Sy("t")>>)),
              Q(2, 1))

\* the full diffusive density with besseli(0, (r0*r)/(4*k2*t))
p_2_3_arg ==
    Bessel(MDiv(Num(1, 1), Prod(<<Num(4, 1), Sy("pi"), Sy("k2"), Sy("t")>>)),
           RZero,
           MDiv(Num(1, 1), Prod(<<Num(4, 1), Sy("k2"), Sy("t")>>)),
           Q(2, 1),
           0,
           MDiv(Sy("r0"), Prod(<<Num(4, 1), Sy("k2"), Sy("t")>>)),
           Q(1, 1))

\* 2.3  p = 1.0 / (4*pi*k2*t) * exp(-(r0**2 + r**2)/(4*k2*t))
\*          * besseli(0, (r0*r)/(2*k2*t))
p_2_3 ==
    Bessel(MDiv(Num(1, 1), Prod(<<Num(4, 1), Sy("pi"), Sy("k2"), Sy("t")>>)),
           RZero,
           MDiv(Num(1, 1), Prod(<<Num(4, 1), Sy("k2"), Sy("t")>>)),
           Q(2, 1),
           0,
           MDiv(Sy("r0"), Prod(<<Num(2, 1), Sy("k2"), Sy("t")>>)),
           Q(1, 1))

\* the asymptotic GM density with scd = exp(-2.0*r**(1.0/2.0)/(lmbd * t))
p_2_4_rate ==
    Stretched(MDiv(MPow(Num(2, 1), Q(5, 1)),
                   Prod(<<Num(3, 1), Sy("pi"), MPow(MMul(Sy("lambda"), Sy("t")), Q(4, 1))>>)),
              MDiv(Num(2, 1), MMul(Sy("lambda"), Sy("t"))),
              RDiv(Q(1, 1), Q(2, 1)))

\* 2.4  fst = 2.0**5 / (3.0 * pi * (lmbd * t)**4.0)
\*      scd = exp(-4.0*r**(1.0/2.0)/(lmbd * t))
p_2_4 ==
    Stretched(MDiv(MPow(Num(2, 1), Q(5, 1)),
                   Prod(<<Num(3, 1), Sy("pi"), MPow(MMul(Sy("lambda"), Sy("t")), Q(4, 1))>>)),
              MDiv(Num(4, 1), MMul(Sy("lambda"), Sy("t"))),
              RDiv(Q(1, 1), Q(2, 1)))

\* 2.5  fst = 1.0 / (pi * lmbd * t * (r0 * r)**(3.0/4.0))
\*      scd = exp(-4.0*(r0**(1.0/2.0) + r**(1.0/2.0))/(lmbd * t))
\*      tmp = 8.0 * ((r0 * r)**(1.0/4.0)) / (lmbd * t);  trd = besseli(3, tmp)
p_2_5 ==
    Bessel(MDiv(Num(1, 1),
                Prod(<<Sy("pi"), Sy("lambda"), Sy("t"), MPow(Sy("r0"), Q(3, 4))>>)),
           Q(3, 4),
           MDiv(Num(4, 1), MMul(Sy("lambda"), Sy("t"))),
           RDiv(Q(1, 1), Q(2, 1)),
           3,
           MDiv(MMul(Num(8, 1), MPow(Sy("r0"), Q(1, 4))), MMul(Sy("lambda"), Sy("t"))),
           Q(1, 4))

\* 2.6  a = 2; b = 3 - a
\*      fst = b / (4 * pi * gamma(4 / b) * (b**2/4 * lmbd * t)**(4/b) )
\*      scd = exp( -4/b**2 * r**(b/2) / (lmbd * t) )
p_2_6 ==
    LET a0 == 2
        b0 == 3 - a0
    IN  Stretched(MDiv(Num(b0, 1),
                       Prod(<<Num(4, 1), Sy("pi"), [q |-> GammaR(Q(4, b0)), e |-> EZero],
                              MPow(Prod(<<Num(b0 * b0, 4), Sy("lambda"), Sy("t")>>),
                                   Q(4, b0))>>)),
                  MDiv(Num(4, b0 * b0), MMul(Sy("lambda"), Sy("t"))),
                  Q(b0, 2))

\* 2.7  a = 1
\*      fst = 1 / (4 * pi * kappa * t * r**(a/2) * r0**(a/2))
\*      snd = exp(- (1/(a-2)**2) * (r**(2-a)+r0**(2-a))/(kappa * t))
\*      trd = besseli(a/(2-a), 2/(a-2)**2 * (r*r0)**(1-a/2) / (kappa * t))
p_2_7 ==
    LET a0 == 1
    IN  Bessel(MDiv(Num(1, 1),
                    Prod(<<Num(4, 1), Sy("pi"), Sy("kappa"), Sy("t"),
                           MPow(Sy("r0"), Q(a0, 2))>>)),
               Q(a0, 2),
               MDiv(Num(1, (a0 - 2) * (a0 - 2)), MMul(Sy("kappa"), Sy("t"))),
               Q(2 - a0, 1),
               Q(a0, 2 - a0)[1],
               MDiv(MMul(Num(2, (a0 - 2) * (a0 - 2)),
                         MPow(Sy("r0"), RSub(ROne, Q(a0, 2)))),
                    MMul(Sy("kappa"), Sy("t"))),
               RSub(ROne, Q(a0, 2)))

\* the asymptotic Richardson density with scd = exp(-9.0*r**(2.0/3.0)/(beta * t))
p_2_8_rate ==
    Stretched(MDiv(MPow(Num(3, 2), Q(5, 1)),
                   Prod(<<Num(4, 1), Sy("pi"), MPow(MMul(Sy("beta"), Sy("t")), Q(3, 1))>>)),
              MDiv(Num(9, 1), Prod(<<Num(1, 1), Sy("beta"), Sy("t")>>)),
              RDiv(Q(2, 1), Q(3, 1)))

\* 2.8  fst = 1.5**5 / (4.0 * pi * (beta * t)**3.0)
\*      scd = exp(-9.0*r**(2.0/3.0)/(4.0 * beta * t))
p_2_8 ==
    Stretched(MDiv(MPow(Num(3, 2), Q(5, 1)),
                   Prod(<<Num(4, 1), Sy("pi"), MPow(MMul(Sy("beta"), Sy("t")), Q(3, 1))>>)),
              MDiv(Num(9, 1), Prod(<<Num(4, 1), Sy("beta"), Sy("t")>>)),
              RDiv(Q(2, 1), Q(3, 1)))

\* 2.9  fst = 3.0 / (4.0 * pi * beta * t * (r0 * r)**(2.0/3.0))
\*      scd = exp(-9.0*(r0**(2.0/3.0) + r**(2.0/3.0))/(4.0 * beta * t))
\*      tmp = 9.0 * ((r0 * r)**(1.0/3.0)) / (2.0 * beta * t);  trd = besseli(2, tmp)
p_2_9 ==
    Bessel(MDiv(Num(3, 1),
                Prod(<<Num(4, 1), Sy("pi"), Sy("beta"), Sy("t"), MPow(Sy("r0"), Q(2, 3))>>)),
           Q(2, 3),
           MDiv(Num(9, 1), Prod(<<Num(4, 1), Sy("beta"), Sy("t")>>)),
           RDiv(Q(2, 1), Q(3, 1)),
           2,
           MDiv(MMul(Num(9, 1), MPow(Sy("r0"), Q(1, 3))),
                Prod(<<Num(2, 1), Sy("beta"), Sy("t")>>)),
           Q(1, 3))

\* 2.10 p = 1 / (4 * pi**1.5 * (t)**0.5) * exp(-(log(r) + 2*t)**2 / (4*t))
p_2_10 ==
    LogNormal("lognormal",
              MDiv(Num(1, 1),
                   Prod(<<Num(4, 1), MPow(Sy("pi"), Q(3, 2)), MPow(Sy("t"), Q(1, 2))>>)),
              Sy("t"))

\* 2.10 p = 1 / (4 * pi**1.5 * r0**2 * (t/T)**0.5)
\*          * exp(-(x + 2*(t/T))**2 / (4*(t/T)))
p_2_10x ==
    LogNormal("lognormalx",
              MDiv(Num(1, 1),
                   Prod(<<Num(4, 1), MPow(Sy("pi"), Q(3, 2)), MPow(Sy("r0"), Q(2, 1)),
                          MPow(MDiv(Sy("t"), Sy("T")), Q(1, 2))>>)),
              MDiv(Sy("t"), Sy("T")))

\* 2 * pi * integrate(p * r**(k+1), (r, 0, oo))
Moment(d, k, f) == Val(EScale(IntegrateR(d, k + 1), Tm(TwoPi, {})), f)

\* the x-domain moment with the Jacobian r0*exp(x) of dr left out:
\* 2 * pi * integrate(p * (r0*exp(x))**(k+1), (x, -oo, oo))
MomentXNoJacobian(d, k, f) == Val(EScale(IntegrateX(d, k + 1), Tm(TwoPi, {})), f)

\* 2 * pi * integrate(p * (r0*exp(x))**(k+2), (x, -oo, oo))
MomentX(d, k, f) == Val(EScale(IntegrateX(d, k + 2), Tm(TwoPi, {})), f)

(***************************************************************************)
(* The general moment rn = 2*pi*integrate(p * r**(n+1), (r, 0, oo)), as    *)
(* the closed form in n that sympy returns:                                *)
(*   "gamma"  coef * base^n * Gamma(g1 n + g0)                             *)
(*   "hyper"  coef * base^n * Gamma(g1 n + g0) * 1F1(g1 n + g0; hb; hz)    *)
(*   "lognormal"  coef * base^n * exp((n^2 + 2n) * hz)                     *)
(***************************************************************************)
Rn(f, cf, bs, g1v, g0v, hbv, hzv) ==
    [fam |-> f, coef |-> cf, base |-> bs, g1 |-> g1v, g0 |-> g0v, hb |-> hbv, hz |-> hzv]

NoRn == Rn("undefined", Tm(Num(0, 1), {}), Num(0, 1), RZero, RZero, RZero, Num(0, 1))

\* the general moment with c^(1/s) for the base of the Gamma form, where
\* integrate gives c^(-1/s)
MomentNInverseBase(d) ==
    CASE d.fam = "stretched" ->
           LET g1v == RInv(d.s)
               g0v == RDiv(RSub(Q(2, 1), d.w), d.s)
           IN  Rn("gamma",
                  TMul(d.A, Tm(MDiv(TwoPi, MMul([q |-> d.s, e |-> EZero], MPow(d.c, g0v))),
                               {})),
                  MPow(d.c, g1v), g1v, g0v, RZero, Num(0, 1))
      [] d.fam = "bessel" ->
           LET g1v == RInv(RMul(Q(2, 1), d.sigma))
               g0v == RDiv(RAdd(RDiv(RSub(Q(2, 1), d.w), d.sigma), Q(d.nu, 1)), Q(2, 1))
           IN  Rn("hyper",
                  TMul(d.A,
                       Tm(MDiv(MMul(TwoPi, MPow(MDiv(d.bb, Num(2, 1)), Q(d.nu, 1))),
                               Prod(<<[q |-> d.sigma, e |-> EZero], Num(2, 1),
                                      [q |-> GammaR(Q(d.nu + 1, 1)), e |-> EZero],
                                      MPow(d.c, g0v)>>)), {})),
                  MPow(d.c, RNeg(g1v)), g1v, g0v, Q(d.nu + 1, 1),
                  MDiv(MPow(d.bb, Q(2, 1)), MMul(Num(4, 1), d.c)))
      [] d.fam = "lognormal" ->
           Rn("lognormal",
              TMul(d.A, Tm(Prod(<<TwoPi, Num(2, 1), MPow(MMul(Sy("pi"), d.tau), Q(1, 2))>>),
                           {})),
              Num(1, 1), RZero, RZero, RZero, d.tau)
      [] d.fam = "lognormalx" ->
           Rn("lognormal",
              TMul(d.A, Tm(Prod(<<TwoPi, Num(2, 1), MPow(MMul(Sy("pi"), d.tau), Q(1, 2)),
                                  MPow(Sy("r0"), Q(2, 1))>>), {})),
              Sy("r0"), RZero, RZero, RZero, d.tau)

MomentN(d) ==
    CASE d.fam = "stretched" ->
           LET g1v == RInv(d.s)
               g0v == RDiv(RSub(Q(2, 1), d.w), d.s)
           IN  Rn("gamma",
                  TMul(d.A, Tm(MDiv(TwoPi, MMul([q |-> d.s, e |-> EZero], MPow(d.c, g0v))),
                               {})),
                  MPow(d.c, RNeg(g1v)), g1v, g0v, RZero, Num(0, 1))
      [] d.fam = "bessel" ->
           LET g1v == RInv(RMul(Q(2, 1), d.sigma))
               g0v == RDiv(RAdd(RDiv(RSub(Q(2, 1), d.w), d.sigma), Q(d.nu, 1)), Q(2, 1))
           IN  Rn("hyper",
                  TMul(d.A,
                       Tm(MDiv(MMul(TwoPi, MPow(MDiv(d.bb, Num(2, 1)), Q(d.nu, 1))),
                               Prod(<<[q |-> d.sigma, e |-> EZero], Num(2, 1),
                                      [q |-> GammaR(Q(d.nu + 1, 1)), e |-> EZero],
                                      MPow(d.c, g0v)>>)), {})),
                  MPow(d.c, RNeg(g1v)), g1v, g0v, Q(d.nu + 1, 1),
                  MDiv(MPow(d.bb, Q(2, 1)), MMul(Num(4, 1), d.c)))
      [] d.fam = "lognormal" ->
           Rn("lognormal",
              TMul(d.A, Tm(Prod(<<TwoPi, Num(2, 1), MPow(MMul(Sy("pi"), d.tau), Q(1, 2))>>),
                           {})),
              Num(1, 1), RZero, RZero, RZero, d.tau)
      [] d.fam = "lognormalx" ->
           Rn("lognormal",
              TMul(d.A, Tm(Prod(<<TwoPi, Num(2, 1), MPow(MMul(Sy("pi"), d.tau), Q(1, 2)),
                                  MPow(Sy("r0"), Q(2, 1))>>), {})),
              Sy("r0"), RZero, RZero, RZero, d.tau)

\* the derivation with K2 = diff(r2, t), the division by 2 left out
DerivationNoHalf(d, fra, fr2, fr4) ==
    LET vra == Moment(d, 0, fra)
        vr2 == Moment(d, 2, fr2)
        vr4 == Moment(d, 4, fr4)
    IN  [ra |-> vra, r2 |-> vr2, r4 |-> vr4,
         Ku |-> VDiv(vr4, VPowNat(vr2, 2)),
         K2 |-> VDiffT(vr2)]

(***************************************************************************)
(* The lines every r-domain regime cell repeats:                           *)
(*     ra = 2 * pi * integrate(p * r   , (r, 0, oo))                       *)
(*     r2 = 2 * pi * integrate(p * r**3, (r, 0, oo))                       *)
(*     r4 = 2 * pi * integrate(p * r**5, (r, 0, oo))                       *)
(*     Ku = r4 / r2**2.0                                                   *)
(*     K2 = diff(r2, t) / 2                                                *)
(* fra, fr2, fr4 are the forms in which integrate returns.                 *)
(***************************************************************************)
Derivation(d, fra, fr2, fr4) ==
    LET vra == Moment(d, 0, fra)
        vr2 == Moment(d, 2, fr2)
        vr4 == Moment(d, 4, fr4)
    IN  [ra |-> vra, r2 |-> vr2, r4 |-> vr4,
         Ku |-> VDiv(vr4, VPowNat(vr2, 2)),
         K2 |-> VScale(VDiffT(vr2), Num(1, 2))]

\* the change-of-variable cell of 2.10:
\*     ra = 2 * pi * integrate(p * (r0*exp(x))**2, (x, -oo, oo))  (r2: **4, r4: **6)
\*     Ku = r4 / r2**2.0
\*     K2 = diff(simplify(r2), t) / 2
DerivationX(d) ==
    LET vra == MomentX(d, 0, "closed")
        vr2 == MomentX(d, 2, "closed")
        vr4 == MomentX(d, 4, "closed")
    IN  [ra |-> vra, r2 |-> vr2, r4 |-> vr4,
         Ku |-> VDiv(vr4, VPowNat(vr2, 2)),
         K2 |-> VScale(VDiffT(vr2), Num(1, 2))]

\* the same derivation with the forms replaced
WithForms(m, fra, fr2, fr4) ==
    [ra |-> [m.ra EXCEPT !.form = fra],
     r2 |-> [m.r2 EXCEPT !.form = fr2],
     r4 |-> [m.r4 EXCEPT !.form = fr4],
     Ku |-> [m.Ku EXCEPT !.form = JoinForm(fr4, fr2)],
     K2 |-> [m.K2 EXCEPT !.form = fr2]]

\* what each cell derives; the executed cells display evaluated results, but
\* for r2 and r4 of the raw Lundgren cell, which come back as Integral objects
m_2_2 == Derivation(p_2_2, "closed", "closed", "closed")
m_2_3 == Derivation(p_2_3, "closed", "closed", "closed")
m_2_4 == Derivation(p_2_4, "closed", "closed", "closed")
m_2_5 == Derivation(p_2_5, "closed", "closed", "closed")
m_2_6 == Derivation(p_2_6, "closed", "closed", "closed")
m_2_7 == Derivation(p_2_7, "closed", "closed", "closed")
m_2_8 == Derivation(p_2_8, "closed", "closed", "closed")
m_2_9 == Derivation(p_2_9, "closed", "closed", "closed")
m_2_10 == Derivation(p_2_10, "closed", "integral", "integral")
m_2_10x == DerivationX(p_2_10x)

\* K = 1/2 * a**(1/b) * b * sym * r**((2*b-2)/b), a**(1/b) left as it is written
KOf(a0, b0, sym) ==
    [half |-> Q(1, 2), a |-> a0, root |-> RInv(b0), b |-> b0, sym |-> sym,
     rexp |-> RDiv(RSub(RMul(Q(2, 1), b0), Q(2, 1)), b0)]

NoK == [half |-> RZero, a |-> RZero, root |-> RZero, b |-> RZero, sym |-> "none",
        rexp |-> RZero]

(***************************************************************************)
(* The kernel of the derivation notebook.                                  *)
(***************************************************************************)
VARIABLES
    defined,    \* the names bound in the kernel's namespace
    p,          \* the density bound to p (fst, scd/snd, tmp, trd are its factors)
    ra, r2, r4, Ku, K2,     \* the values bound to these names
    rn,         \* the general moment bound to rn
    a, b, K,    \* the numbers bound to a and b, and the diffusivity law K
    out,        \* what the cell run last printed and displayed
    runs        \* cell executions so far

kvars == <<defined, p, ra, r2, r4, Ku, K2, rn, a, b, K, out, runs>>

(***************************************************************************)
(* The compress notebook: its one code cell, statement by statement.       *)
(***************************************************************************)
VARIABLES
    src,        \* the dataset in /Data/LASER/laser64_drogued_remove_first.nc
    dset,       \* the dataset bound to dset
    arrays,     \* the list literal handed to xr.merge, as far as it is built
    dset2,      \* the dataset bound to dset2
    stdout,     \* what the cell has printed
    nc,         \* the file ../data/laser32_drogued_remove_first.nc
    cpc         \* the statement the cell is at

cvars == <<src, dset, arrays, dset2, stdout, nc, cpc>>

\* cell executions in one kernel session
MaxRuns == 3

\* the names cell 2.1 binds
Symbols ==
    {"Symbol", "exp", "integrate", "pi", "oo", "simplify", "init_printing", "ln", "gamma",
     "log", "diff", "display", "r", "t", "beta", "r0", "k2", "kappa", "n", "T", "lmbd", "x"}

BesselNames == {"besseli", "besselj", "bessely", "besselk"}

RegimeCells == {"2.2", "2.3", "2.4", "2.5", "2.6", "2.7", "2.8", "2.9", "2.10", "2.10x"}

\* display(...) of the names in `names`, those in `simps` wrapped in simplify();
\* okc counts the 'ok' lines printed before it
Displayed(c, okc, names, simps, dp, m, vrn, vK) ==
    [cell |-> c, err |-> "none", ok |-> okc, shown |-> names, simp |-> simps,
     p  |-> IF "p" \in names THEN dp ELSE NoDensity,
     ra |-> IF "ra" \in names THEN m.ra ELSE NoVal,
     r2 |-> IF "r2" \in names THEN m.r2 ELSE NoVal,
     r4 |-> IF "r4" \in names THEN m.r4 ELSE NoVal,
     rn |-> IF "rn" \in names THEN vrn ELSE NoRn,
     Ku |-> IF "Ku" \in names THEN m.Ku ELSE NoVal,
     K  |-> IF "K" \in names THEN vK ELSE NoK,
     K2 |-> IF "K2" \in names THEN m.K2 ELSE NoVal]

NoDerivation == [ra |-> NoVal, r2 |-> NoVal, r4 |-> NoVal, Ku |-> NoVal, K2 |-> NoVal]

\* the cell stopped on a NameError after okc 'ok' lines; names are what it had
\* displayed before (display(p) of cell 2.7)
NameError(c, okc, names, dp) ==
    [Displayed(c, okc, names, {}, dp, NoDerivation, NoRn, NoK) EXCEPT !.err = "NameError"]

NoOut == Displayed("none", 0, {}, {}, NoDensity, NoDerivation, NoRn, NoK)

KInit ==
    /\ defined = {}
    /\ p = NoDensity
    /\ ra = NoVal /\ r2 = NoVal /\ r4 = NoVal /\ Ku = NoVal /\ K2 = NoVal
    /\ rn = NoRn
    /\ a = RZero /\ b = RZero /\ K = NoK
    /\ out = NoOut
    /\ runs = 0

\* ra, r2, r4, Ku, K2 = the derivation m
Bind(m) == ra' = m.ra /\ r2' = m.r2 /\ r4' = m.r4 /\ Ku' = m.Ku /\ K2' = m.K2

Step == runs < MaxRuns /\ runs' = runs + 1 /\ UNCHANGED cvars

\* 2.1 defining symbols
Cell_2_1 ==
    /\ Step
    /\ defined' = defined \cup Symbols
    /\ out' = [NoOut EXCEPT !.cell = "2.1"]
    /\ UNCHANGED <<p, ra, r2, r4, Ku, K2, rn, a, b, K>>

\* 2.2 Asymptotic diffusive regime
Cell_2_2 ==
    /\ Step
    /\ IF Symbols \subseteq defined
       THEN \E m \in {m_2_2}, g \in {MomentN(p_2_2)} :
            /\ p' = p_2_2
            /\ Bind(m)
            /\ rn' = g
            /\ defined' = defined \cup {"p", "ra", "r2", "r4", "rn", "Ku", "K2"}
            /\ out' = Displayed("2.2", 0, {"ra", "r2", "r4", "rn", "Ku", "K2"}, {"rn"},
                                p', m, g, NoK)
            /\ UNCHANGED <<a, b, K>>
       ELSE /\ out' = NameError("2.2", 0, {}, NoDensity)
            /\ UNCHANGED <<defined, p, ra, r2, r4, Ku, K2, rn, a, b, K>>

\* 2.3 Full diffusive regime
Cell_2_3 ==
    /\ Step
    /\ IF Symbols \subseteq defined
       THEN \E m \in {m_2_3}, g \in {MomentN(p_2_3)} :
            /\ p' = p_2_3
            /\ Bind(m)
            /\ rn' = g
            /\ defined' = defined \cup BesselNames
                              \cup {"p", "ra", "r2", "r4", "rn", "Ku", "K2"}
            /\ out' = Displayed("2.3", 0, {"ra", "r2", "r4", "rn", "Ku", "K2"},
                                {"r2", "r4", "rn", "Ku", "K2"},
                                p', m, g, NoK)
            /\ UNCHANGED <<a, b, K>>
       ELSE /\ defined' = defined \cup BesselNames
            /\ out' = NameError("2.3", 0, {}, NoDensity)
            /\ UNCHANGED <<p, ra, r2, r4, Ku, K2, rn, a, b, K>>

\* 2.4 Asymptotic GM regime
Cell_2_4 ==
    /\ Step
    /\ IF Symbols \subseteq defined
       THEN \E m \in {m_2_4}, g \in {MomentN(p_2_4)} :
            /\ p' = p_2_4
            /\ Bind(m)
            /\ rn' = g
            /\ a' = Q(328125, 100000)
            /\ b' = Q(4, 1)
            /\ K' = KOf(a', b', "lmbd")
            /\ defined' = defined \cup BesselNames
                              \cup {"fst", "scd", "p", "ra", "r2", "r4", "rn", "Ku", "K2",
                                    "a", "b", "K"}
            /\ out' = Displayed("2.4", 0, {"ra", "r2", "r4", "rn", "Ku", "K", "K2"}, {"rn"},
                                p', m, g, K')
       ELSE /\ defined' = defined \cup BesselNames
            /\ out' = NameError("2.4", 0, {}, NoDensity)
            /\ UNCHANGED <<p, ra, r2, r4, Ku, K2, rn, a, b, K>>

\* 2.5 Full GM regime: the cell was never executed ("no analytical solution
\* from sympy"), so each integral comes back evaluated or as an Integral
Cell_2_5 ==
    /\ Step
    /\ IF Symbols \subseteq defined
       THEN \E m0 \in {m_2_5}, fra \in Forms, fr2 \in Forms, fr4 \in Forms :
               \E m \in {WithForms(m0, fra, fr2, fr4)} :
                   /\ p' = p_2_5
                   /\ Bind(m)
                   /\ defined' = defined \cup {"besseli", "fst", "scd", "tmp", "trd", "p",
                                               "ra", "r2", "r4", "Ku", "K2"}
                   /\ out' = IF "rn" \in defined
                             THEN Displayed("2.5", 4, {"ra", "r2", "r4", "rn", "Ku", "K2"},
                                            {}, p', m, rn, NoK)
                             ELSE NameError("2.5", 4, {}, NoDensity)
                   /\ UNCHANGED <<rn, a, b, K>>
       ELSE /\ defined' = defined \cup {"besseli"}
            /\ out' = NameError("2.5", 0, {}, NoDensity)
            /\ UNCHANGED <<p, ra, r2, r4, Ku, K2, rn, a, b, K>>

\* 2.6 Generalized asymptotic regime
Cell_2_6 ==
    /\ Step
    /\ a' = Q(2, 1)
    /\ b' = RSub(Q(3, 1), a')
    /\ IF Symbols \subseteq defined
       THEN \E m \in {m_2_6}, g \in {MomentN(p_2_6)} :
            /\ p' = p_2_6
            /\ Bind(m)
            /\ rn' = g
            /\ defined' = defined \cup {"a", "b", "fst", "scd", "p", "ra", "r2", "r4", "rn",
                                        "Ku", "K2"}
            /\ out' = Displayed("2.6", 0, {"ra", "r2", "r4", "rn", "Ku", "K2"}, {"rn"},
                                p', m, g, NoK)
            /\ UNCHANGED K
       ELSE /\ defined' = defined \cup {"a", "b"}
            /\ out' = NameError("2.6", 0, {}, NoDensity)
            /\ UNCHANGED <<p, ra, r2, r4, Ku, K2, rn, K>>

\* 2.7 Generalized full regime: never executed; it uses besseli without
\* importing it
Cell_2_7 ==
    /\ Step
    /\ a' = Q(1, 1)
    /\ IF Symbols \subseteq defined /\ "besseli" \in defined
       THEN \E m0 \in {m_2_7}, fra \in Forms, fr2 \in Forms, fr4 \in Forms :
               \E m \in {WithForms(m0, fra, fr2, fr4)} :
                   /\ p' = p_2_7
                   /\ Bind(m)
                   /\ defined' = defined \cup {"a", "fst", "snd", "trd", "p", "ra", "r2",
                                               "r4", "Ku", "K2"}
                   /\ out' = Displayed("2.7", 3, {"p", "ra", "r2", "r4", "Ku", "K2"}, {},
                                       p', m, NoRn, NoK)
                   /\ UNCHANGED <<rn, b, K>>
       ELSE /\ defined' = defined \cup
                              (IF Symbols \subseteq defined THEN {"a", "fst", "snd"}
                               ELSE {"a"})
            /\ out' = NameError("2.7", 0, {}, NoDensity)
            /\ UNCHANGED <<p, ra, r2, r4, Ku, K2, rn, b, K>>

\* 2.8 Asymptotic Richardson regime
Cell_2_8 ==
    /\ Step
    /\ IF Symbols \subseteq defined
       THEN \E m \in {m_2_8}, g \in {MomentN(p_2_8)} :
            /\ p' = p_2_8
            /\ Bind(m)
            /\ rn' = g
            /\ a' = Q(5267489, 1000000)
            /\ b' = Q(3, 1)
            /\ K' = KOf(a', b', "beta")
            /\ defined' = defined \cup BesselNames
                              \cup {"fst", "scd", "p", "ra", "r2", "r4", "rn", "Ku", "K2",
                                    "a", "b", "K"}
            /\ out' = Displayed("2.8", 0, {"ra", "r2", "r4", "rn", "Ku", "K", "K2"}, {"rn"},
                                p', m, g, K')
       ELSE /\ defined' = defined \cup BesselNames
            /\ out' = NameError("2.8", 0, {}, NoDensity)
            /\ UNCHANGED <<p, ra, r2, r4, Ku, K2, rn, a, b, K>>

\* 2.9 Full Richardson regime: never executed
Cell_2_9 ==
    /\ Step
    /\ IF Symbols \subseteq defined
       THEN \E m0 \in {m_2_9}, fra \in Forms, fr2 \in Forms, fr4 \in Forms :
               \E m \in {WithForms(m0, fra, fr2, fr4)} :
                   /\ p' = p_2_9
                   /\ Bind(m)
                   /\ defined' = defined \cup {"besseli", "fst", "scd", "tmp", "trd", "p",
                                               "ra", "r2", "r4", "Ku", "K2"}
                   /\ out' = IF "rn" \in defined
                             THEN Displayed("2.9", 4, {"ra", "r2", "r4", "rn", "Ku", "K2"},
                                            {}, p', m, rn, NoK)
                             ELSE NameError("2.9", 4, {}, NoDensity)
                   /\ UNCHANGED <<rn, a, b, K>>
       ELSE /\ defined' = defined \cup {"besseli"}
            /\ out' = NameError("2.9", 0, {}, NoDensity)
            /\ UNCHANGED <<p, ra, r2, r4, Ku, K2, rn, a, b, K>>

\* 2.10 Full Lundgren regime, in r
Cell_2_10 ==
    /\ Step
    /\ IF Symbols \subseteq defined
       THEN \E m \in {m_2_10} :
            /\ p' = p_2_10
            /\ Bind(m)
            /\ defined' = defined \cup {"p", "ra", "r2", "r4", "Ku", "K2"}
            /\ out' = Displayed("2.10", 3, {"ra", "r2", "r4", "Ku", "K2"}, {},
                                p', m, NoRn, NoK)
            /\ UNCHANGED <<rn, a, b, K>>
       ELSE /\ out' = NameError("2.10", 0, {}, NoDensity)
            /\ UNCHANGED <<defined, p, ra, r2, r4, Ku, K2, rn, a, b, K>>

\* 2.10 Full Lundgren regime, change of variable x = ln(r/r0)
Cell_2_10x ==
    /\ Step
    /\ IF Symbols \subseteq defined
       THEN \E m \in {m_2_10x} :
            /\ p' = p_2_10x
            /\ Bind(m)
            /\ defined' = defined \cup {"p", "ra", "r2", "r4", "Ku", "K2"}
            /\ out' = Displayed("2.10x", 0, {"ra", "r2", "r4", "Ku", "K2"},
                                {"ra", "r2", "r4", "Ku"}, p', m, NoRn, NoK)
            /\ UNCHANGED <<rn, a, b, K>>
       ELSE /\ out' = NameError("2.10x", 0, {}, NoDensity)
            /\ UNCHANGED <<defined, p, ra, r2, r4, Ku, K2, rn, a, b, K>>

KNext ==
    \/ Cell_2_1 \/ Cell_2_2 \/ Cell_2_3 \/ Cell_2_4 \/ Cell_2_5 \/ Cell_2_6
    \/ Cell_2_7 \/ Cell_2_8 \/ Cell_2_9 \/ Cell_2_10 \/ Cell_2_10x

(***************************************************************************)
(* Numbers in arrays.  An integer is its two's-complement limbs of 16 bits,*)
(* most significant first (4 limbs: int64, 2 limbs: int32).  A float is    *)
(* <<sign, exponent, sig, low>>: sig the 24 significand bits float32       *)
(* keeps (leading bit included), low the 29 bits only float64 has.         *)
(***************************************************************************)
Int64(l3, l2, l1, l0) == <<l3, l2, l1, l0>>

\* the int64 v is one of -2^31 .. 2^31 - 1: its upper limbs repeat the sign
\* bit of its low 32 bits
InInt32Range(v) ==
    IF v[3] >= 2^15 THEN v[1] = 2^16 - 1 /\ v[2] = 2^16 - 1 ELSE v[1] = 0 /\ v[2] = 0

\* an int32 widened back to int64 (sign extension)
Widen(w) == IF w[1] >= 2^15 THEN <<2^16 - 1, 2^16 - 1>> \o w ELSE <<0, 0>> \o w

\* a cast that clips to the int32 range what does not fit
ToInt32Saturating(v) ==
    IF InInt32Range(v) THEN SubSeq(v, Len(v) - 1, Len(v))
    ELSE IF v[1] >= 2^15 THEN <<2^15, 0>> ELSE <<2^15 - 1, 2^16 - 1>>

\* numpy's int64 -> int32 cast keeps the low 32 bits
ToInt32(v) == SubSeq(v, Len(v) - 1, Len(v))

\* numpy's float64 -> float32 cast rounds to nearest, ties to even
ToFloat32(v) ==
    LET up  == v[4] > 2^28 \/ (v[4] = 2^28 /\ v[3] % 2 = 1)
        sg  == IF up THEN v[3] + 1 ELSE v[3]
        ex  == IF sg = 2^24 THEN v[2] + 1 ELSE v[2]
    IN  IF ex > 127 THEN <<v[1], 128, 0, 0>>
        ELSE <<v[1], ex, IF sg = 2^24 THEN 2^23 ELSE sg, 0>>

AsTypeElem(v, from, to) ==
    CASE to = "int32" /\ from = "int64" -> ToInt32(v)
      [] to = "float32" /\ from = "float64" -> ToFloat32(v)
      [] OTHER -> v

(***************************************************************************)
(* xarray objects.  A variable has a dtype, one dimension, its values and  *)
(* its attrs; a dataset has data variables, coordinates and attrs; a       *)
(* DataArray is a named variable with the coordinates on its dimension.    *)
(***************************************************************************)
Variable(dt, dm, vl, at) == [dtype |-> dt, dim |-> dm, val |-> vl, attrs |-> at]

Empty == [nm \in {} |-> 0]
NoDataset == [data |-> Empty, coords |-> Empty, attrs |-> {}]

\* dset.<name>: a data variable or a coordinate, with the coordinates on its
\* dimension; any other name raises AttributeError
HasAttr(ds, nm) == nm \in DOMAIN ds.data \cup DOMAIN ds.coords

GetAttr(ds, nm) ==
    LET vr == IF nm \in DOMAIN ds.data THEN ds.data[nm] ELSE ds.coords[nm]
        on == {c \in DOMAIN ds.coords : ds.coords[c].dim = vr.dim}
    IN  [name |-> nm, var |-> vr, coords |-> [c \in on |-> ds.coords[c]]]

\* DataArray.astype(dtype): the values cast, attrs kept, coordinates untouched
AsType(da, to) ==
    [da EXCEPT !.var = [@ EXCEPT !.dtype = to,
                                 !.val = [i \in DOMAIN @ |->
                                             AsTypeElem(@[i], da.var.dtype, to)]]]

\* xr.merge(list of DataArrays): every array becomes a data variable, the
\* coordinates are the union of the arrays' coordinates, and the attrs are
\* those of the first array (to_dataset(promote_attrs=True), "override")
Merge(arrs) ==
    LET idx == DOMAIN arrs
        nms == {arrs[i].name : i \in idx}
        cds == UNION {DOMAIN arrs[i].coords : i \in idx}
    IN  [data   |-> [nm \in nms |-> arrs[CHOOSE i \in idx : arrs[i].name = nm].var],
         coords |-> [c \in cds |->
                        arrs[CHOOSE i \in idx : c \in DOMAIN arrs[i].coords].coords[c]],
         attrs  |-> arrs[1].var.attrs]

\* attrs[key] = value
SetAttr(ats, key, value) == {kv \in ats : kv[1] # key} \cup {<<key, value>>}

(***************************************************************************)
(* The compress cell.                                                      *)
(***************************************************************************)
\* the arrays of the list handed to xr.merge, in order, and their dtypes
CastOrder == <<"ID", "rowsize", "ve", "vn", "longitude", "latitude">>
CastDtype ==
    [nm \in {"ID", "rowsize", "ve", "vn", "longitude", "latitude"} |->
        IF nm \in {"ID", "rowsize"} THEN "int32" ELSE "float32"]
Targets == {CastOrder[i] : i \in DOMAIN CastOrder}

\* encoding= with the entry of latitude left out
EncodingThree ==
    [nm \in {"ve", "vn", "longitude"} |-> [dtype |-> "float32", zlib |-> TRUE]]

\* encoding= of to_netcdf
Encoding ==
    [nm \in {"ve", "vn", "longitude", "latitude"} |-> [dtype |-> "float32", zlib |-> TRUE]]

\* array lengths along traj and obs
NTraj == 1
NObs == 2
DimLen(dm) == IF dm = "traj" THEN NTraj ELSE NObs

\* the values a source file may hold
IntVals ==
    {Int64(0, 0, 0, 4), Int64(0, 0, 32768, 0), Int64(65535, 65535, 65535, 65535),
     Int64(0, 1, 0, 5), Int64(65535, 65534, 65535, 65535)}
FloatVals == {<<0, 4, 12582912, 0>>, <<1, 6, 11494359, 300000000>>,
              <<0, -5, 11811161, 268435456>>}

\* a data variable of the source file that the cell does not name
Other == "other"

SrcVariable(nm, iv, fv) ==
    CASE nm = "ID" ->
           Variable("int64", "traj", [i \in 1..NTraj |-> iv],
                    {<<"long_name", "Buoy ID">>, <<"units", "-">>})
      [] nm = "rowsize" -> Variable("int64", "traj", [i \in 1..NTraj |-> iv], {})
      [] nm = "ids" -> Variable("int64", "obs", [i \in 1..NObs |-> iv], {})
      [] nm = "time" ->
           Variable("datetime64[ns]", "obs", [i \in 1..NObs |-> Int64(5155, 3189, 0, i)], {})
      [] OTHER -> Variable("float64", "obs", [i \in 1..NObs |-> fv], {})

SrcDataset(present, iv, fv) ==
    [data   |-> [nm \in present |-> SrcVariable(nm, iv, fv)],
     coords |-> [nm \in {"ids", "time"} |-> SrcVariable(nm, iv, fv)],
     attrs  |-> {<<"title", "LASER experiment">>}]

NoFile == [written |-> FALSE, ds |-> NoDataset, encoding |-> Empty]

CInit ==
    /\ \E present \in SUBSET (Targets \cup {Other}), iv \in IntVals, fv \in FloatVals :
          src = SrcDataset(present, iv, fv)
    /\ dset = NoDataset
    /\ arrays = <<>>
    /\ dset2 = NoDataset
    /\ stdout = <<>>
    /\ nc = NoFile
    /\ cpc = "open"

\* dset = xr.open_dataset(...); print(dset); print('\n')
Open ==
    /\ cpc = "open"
    /\ dset' = src
    /\ stdout' = stdout \o <<"dset", "\n">>
    /\ cpc' = "cast"
    /\ UNCHANGED <<src, arrays, dset2, nc>>
    /\ UNCHANGED kvars

\* the cast step with the AttributeError swallowed: the cell goes on to the
\* title and the write with the arrays it has
CastIgnoringFailure ==
    /\ cpc = "cast"
    /\ Len(arrays) < Len(CastOrder)
    /\ LET nm == CastOrder[Len(arrays) + 1]
       IN  IF HasAttr(dset, nm)
           THEN /\ arrays' = Append(arrays, AsType(GetAttr(dset, nm), CastDtype[nm]))
                /\ cpc' = "cast"
           ELSE /\ arrays' = arrays
                /\ cpc' = "title"
    /\ UNCHANGED <<src, dset, dset2, stdout, nc>>
    /\ UNCHANGED kvars

\* the next element of the list: dset.<name>.astype(<dtype>), or AttributeError
Cast ==
    /\ cpc = "cast"
    /\ Len(arrays) < Len(CastOrder)
    /\ LET nm == CastOrder[Len(arrays) + 1]
       IN  IF HasAttr(dset, nm)
           THEN /\ arrays' = Append(arrays, AsType(GetAttr(dset, nm), CastDtype[nm]))
                /\ cpc' = "cast"
           ELSE /\ arrays' = arrays
                /\ cpc' = "failed"
    /\ UNCHANGED <<src, dset, dset2, stdout, nc>>
    /\ UNCHANGED kvars

\* dset2 = xr.merge([...])
MergeArrays ==
    /\ cpc = "cast"
    /\ Len(arrays) = Len(CastOrder)
    /\ dset2' = Merge(arrays)
    /\ cpc' = "title"
    /\ UNCHANGED <<src, dset, arrays, stdout, nc>>
    /\ UNCHANGED kvars

\* dset2.attrs['title'] = f'{dname} experiment'; print(dset2)
Title ==
    /\ cpc = "title"
    /\ dset2' = [dset2 EXCEPT !.attrs = SetAttr(@, "title", "laser experiment")]
    /\ stdout' = Append(stdout, "dset2")
    /\ cpc' = "write"
    /\ UNCHANGED <<src, dset, arrays, nc>>
    /\ UNCHANGED kvars

\* dset2.to_netcdf(..., engine='netcdf4', encoding={...})
ToNetcdf ==
    /\ cpc = "write"
    /\ nc' = [written |-> TRUE, ds |-> dset2, encoding |-> Encoding]
    /\ cpc' = "done"
    /\ UNCHANGED <<src, dset, arrays, dset2, stdout>>
    /\ UNCHANGED kvars

CNext == Open \/ Cast \/ MergeArrays \/ Title \/ ToNetcdf

\* the kernel with the compress cell not run
CIdle ==
    /\ src = SrcDataset(Targets, Int64(0, 0, 0, 4), <<0, 4, 12582912, 0>>)
    /\ dset = NoDataset
    /\ arrays = <<>>
    /\ dset2 = NoDataset
    /\ stdout = <<>>
    /\ nc = NoFile
    /\ cpc = "open"

vars == <<defined, p, ra, r2, r4, Ku, K2, rn, a, b, K, out, runs,
          src, dset, arrays, dset2, stdout, nc, cpc>>

\* the derivation notebook
Init == KInit /\ CIdle
Next == KNext
Spec == Init /\ [][Next]_vars

\* the compress notebook
InitCompress == KInit /\ CInit
NextCompress == CNext
SpecCompress == InitCompress /\ [][NextCompress]_vars

(***************************************************************************)
(* Properties of the derivation notebook.                                  *)
(***************************************************************************)
\* the expression that is the single monomial prod(ms)
Expr(ms) == EMono(Prod(ms))
\* a value that is exactly the expression E
Is(v, E) == v.num = E /\ v.den = EOne
\* two values that denote the same expression, whatever form sympy gave them
SameValue(v, w) == v.num = w.num /\ v.den = w.den
Sq(m1) == MPow(m1, Q(2, 1))

\* a regime cell has run to its end
Reported(c) == out.cell = c /\ out.err = "none"

\* C1: for every regime's density the zeroth moment ra, 2*pi times the
\* integral of p*r over (0, oo) (of p*(r0*exp(x))^2 over (-oo, oo) for the
\* log-transformed Lundgren form), is exactly 1.
C1_Normalization ==
    (out.cell \in RegimeCells /\ out.err = "none") => Is(ra, EOne)

\* C2: in the asymptotic diffusive regime r2 = 4*k2*t and r4 = 32*k2^2*t^2,
\* so Ku = r4 / r2^2 is exactly 2, free of k2 and t.
C2_AsymptoticDiffusive ==
    Reported("2.2") =>
        /\ Is(out.r2, Expr(<<Num(4, 1), Sy("k2"), Sy("t")>>))
        /\ Is(out.r4, Expr(<<Num(32, 1), Sq(Sy("k2")), Sq(Sy("t"))>>))
        /\ Is(out.Ku, Expr(<<Num(2, 1)>>))
        /\ out.r2.form = "closed" /\ out.r4.form = "closed" /\ out.Ku.form = "closed"

C2_Witness == Reported("2.2") /\ {"r2", "r4", "Ku"} \subseteq out.shown /\ out.r2 = r2

\* C3: in the asymptotic diffusive regime K2 = (1/2) * d(r2)/dt is exactly
\* 2*k2: no power of t is left in it.
C3_DiffusivityConstant ==
    Reported("2.2") =>
        /\ Is(out.K2, Expr(<<Num(2, 1), Sy("k2")>>))
        /\ \A m \in out.K2.num : m.e["t"] = RZero /\ m.x = {}

C3_Witness == Reported("2.2") /\ "K2" \in out.shown /\ out.K2 = K2 /\ K2.form = "closed"

\* E with the symbol s set to 0, for E a polynomial in s
RECURSIVE SubsZero(_, _)
SubsZero(E, s) ==
    IF E = {} THEN {}
    ELSE LET m == CHOOSE m0 \in E : TRUE
             rest == SubsZero(E \ {m}, s)
         IN  IF m.e[s][1] > 0 THEN rest
             ELSE EAdd({[m EXCEPT !.x = {k \in @ : k.e[s][1] <= 0}]}, rest)

\* C4: in the full diffusive regime r2 = 4*k2*t + r0^2, and with r0 = 0 it
\* is the asymptotic diffusive second moment 4*k2*t.
C4_FullDiffusive ==
    Reported("2.3") =>
        /\ Is(out.r2, EAdd(Expr(<<Num(4, 1), Sy("k2"), Sy("t")>>), Expr(<<Sq(Sy("r0"))>>)))
        /\ SubsZero(out.r2.num, "r0") = Expr(<<Num(4, 1), Sy("k2"), Sy("t")>>)
        /\ SubsZero(out.r2.num, "r0") = m_2_2.r2.num

C4_Witness == Reported("2.3") /\ "r2" \in out.shown /\ "r2" \in out.simp

\* C5: in the asymptotic Garrett-Munk regime r2 = 105/32 * lambda^4 * t^4
\* (3.28125 lambda^4 t^4) and Ku = r4 / r2^2 is exactly 66/7.
C5_AsymptoticGM ==
    Reported("2.4") =>
        /\ Is(out.r2, Expr(<<Num(105, 32), MPow(Sy("lambda"), Q(4, 1)),
                             MPow(Sy("t"), Q(4, 1))>>))
        /\ Is(out.Ku, Expr(<<Num(66, 7)>>))

C5_Witness == Reported("2.4") /\ out.r2 = r2 /\ a = Q(328125, 100000)

\* C6: in the asymptotic Richardson regime r2 = 1280/243 * beta^3 * t^3
\* (5.26748971193416 beta^3 t^3) and Ku = r4 / r2^2 is exactly 28/5.
C6_AsymptoticRichardson ==
    Reported("2.8") =>
        /\ Is(out.r2, Expr(<<Num(1280, 243), MPow(Sy("beta"), Q(3, 1)),
                             MPow(Sy("t"), Q(3, 1))>>))
        /\ Is(out.Ku, Expr(<<Num(28, 5)>>))

C6_Witness == Reported("2.8") /\ out.r2 = r2 /\ b = Q(3, 1)

\* what a display is, the forms of its values aside
Shape(v) == [v EXCEPT !.form = "closed"]
Content(o) ==
    [o EXCEPT !.ra = Shape(@), !.r2 = Shape(@), !.r4 = Shape(@), !.Ku = Shape(@),
              !.K2 = Shape(@)]

\* what the regime cell c displays when it is run right after cell 2.1 in a
\* new kernel
Fresh(c) ==
    CASE c = "2.2" ->
           Displayed("2.2", 0, {"ra", "r2", "r4", "rn", "Ku", "K2"}, {"rn"},
                     p_2_2, m_2_2, MomentN(p_2_2), NoK)
      [] c = "2.3" ->
           Displayed("2.3", 0, {"ra", "r2", "r4", "rn", "Ku", "K2"},
                     {"r2", "r4", "rn", "Ku", "K2"}, p_2_3, m_2_3, MomentN(p_2_3), NoK)
      [] c = "2.4" ->
           Displayed("2.4", 0, {"ra", "r2", "r4", "rn", "Ku", "K", "K2"}, {"rn"},
                     p_2_4, m_2_4, MomentN(p_2_4),
                     KOf(Q(328125, 100000), Q(4, 1), "lmbd"))
      [] c = "2.5" -> NameError("2.5", 4, {}, NoDensity)
      [] c = "2.6" ->
           Displayed("2.6", 0, {"ra", "r2", "r4", "rn", "Ku", "K2"}, {"rn"},
                     p_2_6, m_2_6, MomentN(p_2_6), NoK)
      [] c = "2.7" -> NameError("2.7", 0, {}, NoDensity)
      [] c = "2.8" ->
           Displayed("2.8", 0, {"ra", "r2", "r4", "rn", "Ku", "K", "K2"}, {"rn"},
                     p_2_8, m_2_8, MomentN(p_2_8),
                     KOf(Q(5267489, 1000000), Q(3, 1), "beta"))
      [] c = "2.9" -> NameError("2.9", 4, {}, NoDensity)
      [] c = "2.10" ->
           Displayed("2.10", 3, {"ra", "r2", "r4", "Ku", "K2"}, {},
                     p_2_10, m_2_10, NoRn, NoK)
      [] c = "2.10x" ->
           Displayed("2.10x", 0, {"ra", "r2", "r4", "Ku", "K2"},
                     {"ra", "r2", "r4", "Ku"}, p_2_10x, m_2_10x, NoRn, NoK)

\* C7: regime cells share no runtime state: once cell 2.1 has run, what a
\* regime cell displays is what it displays right after cell 2.1 in a new
\* kernel, whatever regime cells ran before it.
C7_NoSharedState ==
    (out.cell \in RegimeCells /\ Symbols \subseteq defined) =>
        Content(out) = Content(Fresh(out.cell))

\* a regime's moment of order k from its own density
OwnMoment(d, k) ==
    IF d.fam = "lognormalx" THEN MomentX(d, k, "closed") ELSE Moment(d, k, "closed")

\* ra, r2, r4, Ku and K2 are the ones derived from the density bound to p,
\* and they are what the cell displayed
FiveFromOwn ==
    /\ SameValue(ra, OwnMoment(p, 0))
    /\ SameValue(r2, OwnMoment(p, 2))
    /\ SameValue(r4, OwnMoment(p, 4))
    /\ SameValue(Ku, VDiv(r4, VPowNat(r2, 2)))
    /\ SameValue(K2, VScale(VDiffT(r2), Num(1, 2)))
    /\ out.ra = ra /\ out.r2 = r2 /\ out.r4 = r4 /\ out.Ku = Ku /\ out.K2 = K2

\* the cells that assign rn
RnCells == {"2.2", "2.3", "2.4", "2.6", "2.8"}

\* C8: every regime that reports has computed all six quantities, the
\* general moment rn among them, from its own density.
C8_AllSixFromOwnDensity ==
    (out.cell \in RegimeCells /\ out.err = "none") => (FiveFromOwn /\ rn = MomentN(p))

\* Every regime cell that reports has computed ra, r2, r4, Ku and K2 from its
\* own density; rn is computed from the cell's density by cells 2.2, 2.3, 2.4,
\* 2.6 and 2.8 only, and the other regime cells leave rn as it was.
RegimesComputeFive ==
    /\ []((out.cell \in RegimeCells /\ out.err = "none") =>
             (FiveFromOwn /\ (out.cell \in RnCells => rn = MomentN(p))))
    /\ [][(out'.cell \in RegimeCells /\ out'.cell \notin RnCells) => rn' = rn]_vars

(***************************************************************************)
(* Properties of the compress notebook.                                    *)
(***************************************************************************)
SameArray(v, w) == v.dtype = w.dtype /\ v.val = w.val

\* C9: the downcast changes the six targeted data variables only: the
\* coordinates ids and time and every data variable that is not targeted are
\* in the output dataset with the dtype and the values they have in the input.
C9_OnlyTargetsChange ==
    cpc \in {"title", "write", "done"} =>
        /\ \A c \in {"ids", "time"} :
              /\ c \in DOMAIN dset2.coords
              /\ SameArray(dset2.coords[c], src.coords[c])
        /\ \A nm \in DOMAIN src.data \ Targets :
              /\ nm \in DOMAIN dset2.data
              /\ SameArray(dset2.data[nm], src.data[nm])

\* C10: the file is written only after all six casts have succeeded; with a
\* targeted variable absent from the source the cell fails and no file is
\* written.
C10_NoPartialWrite ==
    /\ nc.written =>
          /\ Len(arrays) = Len(CastOrder)
          /\ \A i \in DOMAIN CastOrder :
                /\ arrays[i].name = CastOrder[i]
                /\ arrays[i].var.dtype = CastDtype[CastOrder[i]]
          /\ DOMAIN nc.ds.data = Targets
    /\ (\E nm \in Targets : ~HasAttr(src, nm)) =>
          /\ ~nc.written
          /\ cpc \in {"open", "cast", "failed"}
          /\ (cpc = "cast" => \A i \in DOMAIN arrays : HasAttr(src, arrays[i].name))
    /\ cpc = "failed" => (~nc.written /\ nc = NoFile /\ dset2 = NoDataset)

C10_Witness ==
    /\ cpc = "failed"
    /\ Len(arrays) = 3
    /\ ~HasAttr(src, "vn")
    /\ nc = NoFile

\* C11: in the written file every variable that was cast (ID, rowsize, ve, vn,
\* longitude, latitude) has an encoding entry with its target dtype and a
\* compression flag.
C11_EveryCastVariableEncoded ==
    nc.written =>
        \A nm \in Targets :
            /\ nm \in DOMAIN nc.encoding
            /\ nc.encoding[nm].dtype = CastDtype[nm]
            /\ nc.encoding[nm].zlib \in BOOLEAN

\* C11: in the written file the four variables cast to float32 (ve, vn,
\* longitude, latitude) have the encoding entry {dtype float32, zlib True};
\* ID and rowsize, cast to int32, have no encoding entry and are written with
\* the int32 dtype the cast gave them.
C11_FloatVariablesEncoded ==
    nc.written =>
        /\ DOMAIN nc.encoding = {nm \in Targets : CastDtype[nm] = "float32"}
        /\ \A nm \in DOMAIN nc.encoding :
              /\ nc.encoding[nm] = [dtype |-> "float32", zlib |-> TRUE]
              /\ nc.ds.data[nm].dtype = nc.encoding[nm].dtype
        /\ \A nm \in {"ID", "rowsize"} :
              /\ nm \notin DOMAIN nc.encoding
              /\ nc.ds.data[nm].dtype = "int32"

C11_Witness ==
    /\ nc.written
    /\ cpc = "done"
    /\ "latitude" \in DOMAIN nc.encoding
    /\ "ID" \in DOMAIN nc.ds.data

(***************************************************************************)
(* Reporting in the derivation notebook.                                   *)
(***************************************************************************)
\* C12: in every regime block each expression that is displayed has been
\* passed through simplify() before.
C12_AllSimplified ==
    (out.cell \in RegimeCells /\ out.err = "none") => out.shown \subseteq out.simp

\* the displays that are wrapped in simplify(), cell by cell
SimplifiedIn(c) ==
    CASE c \in {"2.2", "2.4", "2.6", "2.8"} -> {"rn"}
      [] c = "2.3" -> {"r2", "r4", "rn", "Ku", "K2"}
      [] c = "2.10x" -> {"ra", "r2", "r4", "Ku"}
      [] OTHER -> {}

\* what does hold: simplify() is applied to the displays SimplifiedIn names
\* and to no other
SimplifiedAsWritten ==
    (out.cell \in RegimeCells /\ out.err = "none") => out.simp = SimplifiedIn(out.cell)

\* the cell got as far as its integrals
Integrated == out.cell \in RegimeCells /\ (out.err = "none" \/ out.ok > 0)
Unevaluated == "integral" \in {ra.form, r2.form, r4.form}

\* C13: when an integral of a regime comes back unevaluated the block does
\* not abort: Ku and K2 are still formed from the unevaluated results, every
\* quantity of the block is displayed and the block runs to its end.
C13_UnevaluatedReported ==
    (Integrated /\ Unevaluated) =>
        /\ out.err = "none"
        /\ {"ra", "r2", "r4", "Ku", "K2"} \subseteq out.shown
        /\ out.Ku = Ku /\ out.K2 = K2
        /\ SameValue(Ku, VDiv(r4, VPowNat(r2, 2)))
        /\ SameValue(K2, VScale(VDiffT(r2), Num(1, 2)))

\* what does hold: the raw Lundgren cell, whose r2 and r4 come back as
\* Integral objects, runs to its end and displays ra, r2, r4, Ku and K2
RawLundgrenReported ==
    (out.cell = "2.10" /\ Symbols \subseteq defined) =>
        /\ out.err = "none"
        /\ out.r2.form = "integral" /\ out.r4.form = "integral"
        /\ out.Ku.form = "integral" /\ out.K2.form = "integral"
        /\ out.shown = {"ra", "r2", "r4", "Ku", "K2"}
        /\ out.Ku = Ku /\ out.K2 = K2
        /\ SameValue(Ku, VDiv(r4, VPowNat(r2, 2)))
        /\ SameValue(K2, VScale(VDiffT(r2), Num(1, 2)))

\* exp(c * t / T), times the monomial m1
ExpTT(m1, c) == {Tm(m1, PMono(MMul(Num(c, 1), MDiv(Sy("t"), Sy("T")))))}

\* C14: in the Lundgren regime with x = ln(r/r0) the k-th moment (k = 0, 2,
\* 4) is 2*pi times the integral over (-oo, oo) of p * (r0*exp(x))^(k+2); the
\* moments are 1, r0^2*exp(8t/T) and r0^4*exp(24t/T), and Ku = exp(8t/T).
C14_LundgrenChangeOfVariable ==
    Reported("2.10x") =>
        /\ Is(out.ra, EOne)
        /\ Is(out.r2, ExpTT(Sq(Sy("r0")), 8))
        /\ Is(out.r4, ExpTT(MPow(Sy("r0"), Q(4, 1)), 24))
        /\ Is(out.Ku, ExpTT(Num(1, 1), 8))
        /\ \A k \in {0, 2, 4} :
              SameValue(CASE k = 0 -> ra [] k = 2 -> r2 [] k = 4 -> r4,
                        Val(EScale(IntegrateX(p, k + 2), Tm(TwoPi, {})), "closed"))

C14_Witness ==
    /\ Reported("2.10x")
    /\ p.fam = "lognormalx"
    /\ {"ra", "r2", "r4", "Ku"} \subseteq out.simp
    /\ out.Ku.form = "closed"

\* the general moment g of Gamma form at the moment order n = k:
\* coef * base^k * Gamma(g1 * k + g0)
RnAt(g, k) ==
    {TMul(g.coef,
          Tm(MMul([q |-> GammaR(RAdd(RMul(g.g1, Q(k, 1)), g.g0)), e |-> EZero],
                  MPow(g.base, Q(k, 1))), {}))}

\* the Gamma forms of the asymptotic regimes:
\*   diffusive     2^n * (k2*t)^(n/2) * Gamma(n/2 + 1)
\*   Garrett-Munk  (1/6) * (lambda*t/4)^(2n) * Gamma(2n + 4)
\*   Richardson    (1/2) * (4*beta*t/9)^(3n/2) * Gamma(3n/2 + 3)
GammaForm(c) ==
    CASE c = "2.2" ->
           Rn("gamma", Tm(Num(1, 1), {}),
              MMul(Num(2, 1), MPow(MMul(Sy("k2"), Sy("t")), Q(1, 2))),
              Q(1, 2), Q(1, 1), RZero, Num(0, 1))
      [] c = "2.4" ->
           Rn("gamma", Tm(Num(1, 6), {}),
              MPow(Prod(<<Num(1, 4), Sy("lambda"), Sy("t")>>), Q(2, 1)),
              Q(2, 1), Q(4, 1), RZero, Num(0, 1))
      [] c = "2.8" ->
           Rn("gamma", Tm(Num(1, 2), {}),
              MPow(Prod(<<Num(4, 9), Sy("beta"), Sy("t")>>), Q(3, 2)),
              Q(3, 2), Q(3, 1), RZero, Num(0, 1))

\* C15: in the asymptotic diffusive, Garrett-Munk and Richardson regimes the
\* general moment has the Gamma form above, and at n = 0, 2 and 4 it is the
\* separately computed normalization (1), second moment and fourth moment.
C15_GeneralMomentAgrees ==
    \A c \in {"2.2", "2.4", "2.8"} :
        Reported(c) =>
            /\ out.rn = rn
            /\ rn = GammaForm(c)
            /\ Is(ra, RnAt(rn, 0)) /\ Is(ra, EOne)
            /\ Is(r2, RnAt(rn, 2))
            /\ Is(r4, RnAt(rn, 4))

C15_Witness ==
    /\ Reported("2.8")
    /\ "rn" \in out.simp
    /\ rn.fam = "gamma"
    /\ Is(r4, RnAt(rn, 4))

(***************************************************************************)
(* The integer downcast of the compress notebook.                          *)
(***************************************************************************)
\* C16: the int64 -> int32 cast of ID and rowsize keeps exactly the values of
\* -2^31 .. 2^31 - 1 (widening the int32 back gives the original); a value
\* outside that range is not rejected and is stored as its value modulo
\* 2^32, the low 32 bits.
C16_IntegerDowncast ==
    cpc \in {"title", "write", "done"} =>
        \A nm \in {"ID", "rowsize"} :
            LET from == src.data[nm]
                to   == dset2.data[nm]
            IN  /\ from.dtype = "int64" /\ to.dtype = "int32"
                /\ DOMAIN to.val = DOMAIN from.val
                /\ \A i \in DOMAIN from.val :
                      /\ Len(to.val[i]) = 2
                      /\ to.val[i][1] = from.val[i][3]
                      /\ to.val[i][2] = from.val[i][4]
                      /\ InInt32Range(from.val[i]) <=> Widen(to.val[i]) = from.val[i]

C16_Witness ==
    /\ cpc = "done"
    /\ nc.written
    /\ ~InInt32Range(src.data["ID"].val[1])
    /\ src.data["ID"].val[1] = Int64(0, 1, 0, 5)
    /\ nc.ds.data["ID"].val[1] = <<0, 5>>

====
